---- MODULE Spec2Model ----
(***************************************************************************)
(* Model of the live transcriber component (src/unnamed/part_000): the     *)
(* transcript assembler (finalizedTranscription / inProgressTranscription  *)
(* and the silence timer) together with the listening life cycle that      *)
(* drives it (startListening, stopListening, the session callbacks).       *)
(*                                                                         *)
(* Text is a sequence of one-character strings.  React state updates are   *)
(* functional updates queued on one component; they are applied in the     *)
(* order the handlers enqueue them, so each handler is one atomic step on  *)
(* the two text buffers.  The value of isListening that closures see       *)
(* (renderedIsListening) and the ref copy (isListeningRef) lag behind the  *)
(* state until the component re-renders and its effect runs.  Updater      *)
(* functions run once each (a production build).                           *)
(***************************************************************************)
EXTENDS Integers, Sequences, FiniteSets, TLC

\* ---------------------------------------------------------------- bounds
MaxRuns == 2        \* startListening invocations in one behaviour
MaxFrags == 2       \* transcript fragments delivered in one behaviour
MaxSamples == 2     \* samples in one audio frame

Runs == 1..MaxRuns

\* ---------------------------------------------------------------- text
Hello_ == <<"H", "e", "l", "l", "o", " ">>
world == <<"w", "o", "r", "l", "d">>
Bonjour == <<"B", "o", "n", "j", "o", "u", "r">>
le_monde == <<"l", "e", " ", "m", "o", "n", "d", "e">>

\* The texts a fragment may carry: the vocabulary of the service in one
\* behaviour.  Empty and whitespace-only texts, and a text with a run of
\* whitespace inside.
Vocabularies ==
    { { <<>>, <<"a">> },
      { <<" ">>, <<"a", " ", " ", "b">> } }

\* The vocabularies of the two documented scenarios, and the one with
\* whitespace runs.
ScenarioVocabularies ==
    { { Hello_, world },
      { Bonjour, le_monde },
      { <<" ">>, <<"a", " ", " ", "b">> } }

Whitespace == {" ", "\t", "\n"}

IsWs(c) == c \in Whitespace

\* String.prototype.trim
RECURSIVE TrimStart(_)
TrimStart(s) ==
    IF s = <<>> THEN <<>>
    ELSE IF IsWs(Head(s)) THEN TrimStart(Tail(s)) ELSE s

RECURSIVE TrimEnd(_)
TrimEnd(s) ==
    IF s = <<>> THEN <<>>
    ELSE IF IsWs(s[Len(s)]) THEN TrimEnd(SubSeq(s, 1, Len(s) - 1)) ELSE s

Trim(s) == TrimEnd(TrimStart(s))

\* s.replace(/\s\s+/g, ' '): every maximal run of two or more whitespace
\* characters becomes one space; a lone whitespace character is kept.
RECURSIVE WsRun(_)
WsRun(s) ==
    IF s = <<>> \/ ~IsWs(Head(s)) THEN 0 ELSE 1 + WsRun(Tail(s))

RECURSIVE CollapseWs(_)
CollapseWs(s) ==
    IF s = <<>> THEN <<>>
    ELSE LET n == WsRun(s) IN
         IF n >= 2 THEN <<" ">> \o CollapseWs(SubSeq(s, n + 1, Len(s)))
         ELSE <<Head(s)>> \o CollapseWs(Tail(s))

\* ---------------------------------------------------------------- state
VARIABLES
    texts,                    \* vocabulary of the transcription service
    isListening,              \* React state (latest value)
    renderedIsListening,      \* isListening as captured by the last render
    isListeningRef,           \* isListeningRef.current
    finalizedTranscription,
    inProgressTranscription,
    error,
    sessionRef,               \* run whose session sessionRef.current holds, 0 = null
    mediaStreamRef,           \* run whose stream mediaStreamRef.current holds, 0 = null
    scriptProcessorRef,       \* run whose source/processor nodes are referenced, 0 = null
    audioContextRef,          \* run whose AudioContext is referenced, 0 = null
    silenceTimerRef,          \* timer id in silenceTimerRef.current, 0 = null
    pendingTimers,            \* timers scheduled and neither fired nor cleared
    pc,                       \* position of each startListening invocation
    session,                  \* state of each run's live session
    stream,                   \* state of each run's microphone stream
    audio,                    \* state of each run's audio graph
    runs,                     \* startListening invocations so far
    fragCount,                \* fragments delivered so far
    trace,                    \* assembler events since the last session start
    before,                   \* the two buffers before the last assembler event
    lastFired,                \* fragments processed between the scheduling and
                              \* the firing of the timer that fired last
    transcription,            \* App.tsx: the displayed transcription
    currentTranscriptionRef,  \* App.tsx: currentTranscriptionRef.current
    capturedIsListening,      \* App.tsx: isListening in the closure of the
                              \* stopListening each run's callbacks captured
    data,                     \* audio.ts: the frame handed to createBlob last
    blob                      \* audio.ts: the payload createBlob returned last

vars == <<texts, isListening, renderedIsListening, isListeningRef,
          finalizedTranscription, inProgressTranscription, error,
          sessionRef, mediaStreamRef, scriptProcessorRef, audioContextRef,
          silenceTimerRef, pendingTimers, pc, session, stream, audio,
          runs, fragCount, trace, before, lastFired,
          transcription, currentTranscriptionRef, capturedIsListening,
          data, blob>>

assembler == <<finalizedTranscription, inProgressTranscription>>
timers == <<silenceTimerRef, pendingTimers>>
listening == <<isListening, renderedIsListening, isListeningRef>>
appTsx == <<transcription, currentTranscriptionRef, capturedIsListening>>
audioTs == <<data, blob>>
resources == <<sessionRef, mediaStreamRef, scriptProcessorRef, audioContextRef,
               stream, audio>>

\* No payload yet.
NoBlob == [data |-> <<>>, mimeType |-> "none"]

Buffers(f, p) == [finalized |-> f, inProgress |-> p]

Partial(t) == [kind |-> "partial", text |-> t]
Final(t) == [kind |-> "final", text |-> t]
Timeout == [kind |-> "timeout", text |-> <<>>]
Stop == [kind |-> "stop", text |-> <<>>]

\* The trace after a stopListening that ran: a third stop in a row is not
\* recorded again, the trace already ends in two.
AfterStop(tr) ==
    IF Len(tr) >= 2 /\ tr[Len(tr)].kind = "stop" /\ tr[Len(tr) - 1].kind = "stop"
    THEN tr
    ELSE Append(tr, Stop)

InitWith(vocabularies) ==
    /\ texts \in vocabularies
    /\ isListening = FALSE
    /\ renderedIsListening = FALSE
    /\ isListeningRef = FALSE
    /\ finalizedTranscription = <<>>
    /\ inProgressTranscription = <<>>
    /\ error = "null"
    /\ sessionRef = 0
    /\ mediaStreamRef = 0
    /\ scriptProcessorRef = 0
    /\ audioContextRef = 0
    /\ silenceTimerRef = 0
    /\ pendingTimers = {}
    /\ pc = [r \in Runs |-> "idle"]
    /\ session = [r \in Runs |-> "none"]
    /\ stream = [r \in Runs |-> "none"]
    /\ audio = [r \in Runs |-> "none"]
    /\ runs = 0
    /\ fragCount = 0
    /\ trace = <<>>
    /\ before = Buffers(<<>>, <<>>)
    /\ lastFired = 0
    /\ transcription = <<>>
    /\ currentTranscriptionRef = <<>>
    /\ capturedIsListening = [r \in Runs |-> FALSE]
    /\ data = <<>>
    /\ blob = NoBlob

Init == InitWith(Vocabularies)

ScenarioInit == InitWith(ScenarioVocabularies)

\* ---------------------------------------------------------------- assembler
\* Faulty variants of the code below; each is used to show that a property
\* depends on the definition it replaces.
FinalCommit_DropsInProgress(currentFinalized, currentInProgress, text) ==
    Trim(currentFinalized \o text) \o <<" ">>

FinalCommit_NoTrim(currentFinalized, currentInProgress, text) ==
    currentFinalized \o currentInProgress \o text \o <<" ">>

FinalCommit_JoinsWithSpace(currentFinalized, currentInProgress, text) ==
    Trim(currentFinalized \o currentInProgress \o <<" ">> \o text) \o <<" ">>

\* isFinal branch: (currentFinalized + currentInProgress + text).trim() + ' '
FinalCommit(currentFinalized, currentInProgress, text) ==
    Trim(currentFinalized \o currentInProgress \o text) \o <<" ">>

PartialAppend_Prepends(prev, text) == text \o prev

\* partial branch: prev + text
PartialAppend(prev, text) == prev \o text

TimeoutCommit_NoCollapse(currentFinalized, currentInProgress) ==
    IF Trim(currentInProgress) # <<>>
    THEN currentFinalized \o Trim(currentInProgress) \o <<" ">>
    ELSE currentFinalized

TimeoutCommit_Unguarded(currentFinalized, currentInProgress) ==
    CollapseWs(currentFinalized \o Trim(currentInProgress) \o <<" ">>)

\* silence timer callback: the value it leaves in finalizedTranscription
TimeoutCommit(currentFinalized, currentInProgress) ==
    IF Trim(currentInProgress) # <<>>
    THEN CollapseWs(currentFinalized \o Trim(currentInProgress) \o <<" ">>)
    ELSE currentFinalized

TimeoutRest_Keeps(currentInProgress) == currentInProgress

\* silence timer callback: the value it returns for inProgressTranscription
TimeoutRest(currentInProgress) == <<>>

StopCommit_DropsFinalized(currentFinalized, currentInProgress) ==
    IF Trim(currentInProgress) # <<>>
    THEN CollapseWs(Trim(currentInProgress) \o <<" ">>)
    ELSE currentFinalized

\* stopListening: the value its flush leaves in finalizedTranscription
StopCommit(currentFinalized, currentInProgress) ==
    IF Trim(currentInProgress) # <<>>
    THEN CollapseWs(currentFinalized \o Trim(currentInProgress) \o <<" ">>)
    ELSE currentFinalized

StopRest_Keeps(currentInProgress) == currentInProgress

\* stopListening: the value its flush returns for inProgressTranscription
StopRest(currentInProgress) == <<>>

\* clearTimeout(id): a fired or cleared id cancels nothing
ClearTimeout(pending, id) == pending \ {id}

CancelOnFinal_Missing(pending, current) == pending

\* isFinal branch: if (silenceTimerRef.current) clearTimeout(silenceTimerRef.current)
CancelOnFinal(pending, current) ==
    IF current # 0 THEN ClearTimeout(pending, current) ELSE pending

CancelOnPartial_Missing(pending, current) == pending

\* partial branch: if (silenceTimerRef.current) clearTimeout(silenceTimerRef.current)
CancelOnPartial(pending, current) ==
    IF current # 0 THEN ClearTimeout(pending, current) ELSE pending

ScheduleOnPartial_Missing(pending, id) == pending

\* partial branch: silenceTimerRef.current = setTimeout(..., SILENCE_THRESHOLD_MS)
ScheduleOnPartial(pending, id) == pending \cup {id}

\* stopListening: if (silenceTimerRef.current) { clearTimeout(...); ... = null }
CancelOnStop(pending, current) ==
    IF current # 0 THEN ClearTimeout(pending, current) ELSE pending

\* ---------------------------------------------------------------- event loop
\* A failed connection fires the error event and then the close event in one
\* task: between onerror and onclose of a session nothing else runs.
Dispatching == \E r \in Runs : session[r] = "errored"

\* ---------------------------------------------------------------- stopListening
\* The body of stopListening, called with isListeningRef.current = current on
\* the session table ses.  It leaves renderedIsListening, isListeningRef and
\* error to the caller.
StopListening(current, ses) ==
    IF ~current
    THEN /\ session' = ses
         /\ UNCHANGED <<isListening, assembler, timers, resources, trace, before>>
    ELSE /\ isListening' = FALSE
         /\ pendingTimers' = CancelOnStop(pendingTimers, silenceTimerRef)
         /\ silenceTimerRef' = 0
         /\ finalizedTranscription' =
                StopCommit(finalizedTranscription, inProgressTranscription)
         /\ inProgressTranscription' = StopRest(inProgressTranscription)
         /\ session' = IF sessionRef # 0 /\ ses[sessionRef] = "open"
                       THEN [ses EXCEPT ![sessionRef] = "closing"]
                       ELSE ses
         /\ sessionRef' = 0
         /\ stream' = IF mediaStreamRef # 0
                      THEN [stream EXCEPT ![mediaStreamRef] = "stopped"]
                      ELSE stream
         /\ mediaStreamRef' = 0
         /\ audio' = IF scriptProcessorRef # 0
                     THEN [audio EXCEPT ![scriptProcessorRef] = "off"]
                     ELSE audio
         /\ scriptProcessorRef' = 0
         /\ audioContextRef' = 0
         /\ trace' = AfterStop(trace)
         /\ before' = Buffers(finalizedTranscription, inProgressTranscription)

\* ---------------------------------------------------------------- user
\* handleToggleListening with isListening false: startListening up to its
\* first await.  A click is a discrete event: React re-renders and runs the
\* effect before the next event.
ClickStart ==
    /\ ~Dispatching
    /\ ~renderedIsListening
    /\ runs < MaxRuns
    /\ runs' = runs + 1
    /\ isListening' = TRUE
    /\ renderedIsListening' = TRUE
    /\ isListeningRef' = TRUE
    /\ error' = "null"
    /\ finalizedTranscription' = <<>>
    /\ inProgressTranscription' = <<>>
    /\ pc' = [pc EXCEPT ![runs + 1] = "getUserMedia"]
    /\ trace' = <<>>
    /\ before' = Buffers(<<>>, <<>>)
    /\ UNCHANGED <<appTsx, audioTs, texts, timers, resources, session, fragCount, lastFired>>

\* handleToggleListening with isListening true: stopListening.  Pending
\* effects are flushed before a discrete event, so the ref equals the
\* rendered value when the handler runs.
ClickStop ==
    /\ ~Dispatching
    /\ renderedIsListening
    /\ StopListening(renderedIsListening, session)
    /\ renderedIsListening' = isListening'
    /\ isListeningRef' = isListening'
    /\ UNCHANGED <<appTsx, audioTs, texts, error, pc, runs, fragCount, lastFired>>

\* ---------------------------------------------------------------- React
\* A scheduled re-render followed by its effect
\*   useEffect(() => { isListeningRef.current = isListening }, [isListening])
\* Closures read the rendered value only in click handlers, and a click first
\* flushes the pending effect, so render and effect are one step.
Render ==
    /\ ~Dispatching
    /\ renderedIsListening # isListening
    /\ renderedIsListening' = isListening
    /\ isListeningRef' = isListening
    /\ UNCHANGED <<appTsx, audioTs, texts, isListening, assembler, error, timers, resources, pc,
                   session, runs, fragCount, trace, before, lastFired>>

\* ---------------------------------------------------------------- startListening
\* getUserMedia resolves: the stream is stored and the session is requested.
MicGranted(r) ==
    /\ ~Dispatching
    /\ pc[r] = "getUserMedia"
    /\ stream' = [stream EXCEPT ![r] = "live"]
    /\ mediaStreamRef' = r
    /\ pc' = [pc EXCEPT ![r] = "connect"]
    /\ UNCHANGED <<appTsx, audioTs, texts, listening, assembler, error, timers, sessionRef,
                   scriptProcessorRef, audioContextRef, audio, session, runs,
                   fragCount, trace, before, lastFired>>

\* getUserMedia rejects with NotAllowedError: the catch block.
MicDenied(r) ==
    /\ ~Dispatching
    /\ pc[r] = "getUserMedia"
    /\ error' = "microphone"
    /\ isListening' = FALSE
    /\ pc' = [pc EXCEPT ![r] = "failed"]
    /\ UNCHANGED <<appTsx, audioTs, texts, renderedIsListening, isListeningRef, assembler, timers,
                   resources, session, runs, fragCount, trace, before, lastFired>>

\* The session opens: onopen builds the audio graph on the stream
\* mediaStreamRef holds now, then connect() resolves in the same task and
\* startListening resumes with sessionRef.current = await sessionPromise.
SessionOpened(r) ==
    /\ ~Dispatching
    /\ pc[r] = "connect"
    /\ session' = [session EXCEPT ![r] = "open"]
    /\ IF mediaStreamRef = 0
       THEN UNCHANGED <<scriptProcessorRef, audioContextRef, audio>>
       ELSE /\ audioContextRef' = r
            /\ scriptProcessorRef' = r
            /\ audio' = [audio EXCEPT ![r] = "on"]
    /\ sessionRef' = r
    /\ pc' = [pc EXCEPT ![r] = "done"]
    /\ UNCHANGED <<appTsx, audioTs, texts, listening, assembler, error, timers, mediaStreamRef,
                   stream, runs, fragCount, trace, before, lastFired>>

\* ai.live.connect rejects: the catch block.
ConnectFailed(r) ==
    /\ ~Dispatching
    /\ pc[r] = "connect"
    /\ error' = "start"
    /\ isListening' = FALSE
    /\ pc' = [pc EXCEPT ![r] = "failed"]
    /\ UNCHANGED <<appTsx, audioTs, texts, renderedIsListening, isListeningRef, assembler, timers,
                   resources, session, runs, fragCount, trace, before, lastFired>>

\* ---------------------------------------------------------------- session callbacks
\* onmessage with inputTranscription, isFinal false
OnMessagePartial(r, text) ==
    /\ ~Dispatching
    /\ session[r] = "open"
    /\ fragCount < MaxFrags
    /\ fragCount' = fragCount + 1
    /\ inProgressTranscription' = PartialAppend(inProgressTranscription, text)
    /\ pendingTimers' =
          ScheduleOnPartial(CancelOnPartial(pendingTimers, silenceTimerRef),
                            fragCount + 1)
    /\ silenceTimerRef' = fragCount + 1
    /\ trace' = Append(trace, Partial(text))
    /\ before' = Buffers(finalizedTranscription, inProgressTranscription)
    /\ UNCHANGED <<appTsx, audioTs, texts, listening, finalizedTranscription, error, resources,
                   pc, session, runs, lastFired>>

\* onmessage with inputTranscription, isFinal true
OnMessageFinal(r, text) ==
    /\ ~Dispatching
    /\ session[r] = "open"
    /\ fragCount < MaxFrags
    /\ fragCount' = fragCount + 1
    /\ pendingTimers' = CancelOnFinal(pendingTimers, silenceTimerRef)
    /\ finalizedTranscription' =
          FinalCommit(finalizedTranscription, inProgressTranscription, text)
    /\ inProgressTranscription' = <<>>
    /\ trace' = Append(trace, Final(text))
    /\ before' = Buffers(finalizedTranscription, inProgressTranscription)
    /\ UNCHANGED <<appTsx, audioTs, texts, listening, error, silenceTimerRef, resources, pc,
                   session, runs, lastFired>>

\* The callback of the timer a partial fragment scheduled.
SilenceTimeout(t) ==
    /\ ~Dispatching
    /\ t \in pendingTimers
    /\ pendingTimers' = pendingTimers \ {t}
    /\ finalizedTranscription' =
          TimeoutCommit(finalizedTranscription, inProgressTranscription)
    /\ inProgressTranscription' = TimeoutRest(inProgressTranscription)
    /\ trace' = Append(trace, Timeout)
    /\ before' = Buffers(finalizedTranscription, inProgressTranscription)
    /\ lastFired' = fragCount - t
    /\ UNCHANGED <<appTsx, audioTs, texts, listening, error, silenceTimerRef, resources, pc,
                   session, runs, fragCount>>

\* onerror: setError, stopListening.  The close event follows in the same task.
OnError(r) ==
    /\ ~Dispatching
    /\ session[r] = "open"
    /\ error' = "session"
    /\ StopListening(isListeningRef, [session EXCEPT ![r] = "errored"])
    /\ UNCHANGED <<appTsx, audioTs, texts, renderedIsListening, isListeningRef, pc, runs,
                   fragCount, lastFired>>

\* onclose: stopListening if isListeningRef.current
OnClose(r) ==
    /\ \/ ~Dispatching /\ session[r] \in {"open", "closing"}
       \/ session[r] = "errored"
    /\ StopListening(isListeningRef, [session EXCEPT ![r] = "closed"])
    /\ UNCHANGED <<appTsx, audioTs, texts, renderedIsListening, isListeningRef, error, pc, runs,
                   fragCount, lastFired>>

\* ---------------------------------------------------------------- specification
Next ==
    \/ ClickStart
    \/ ClickStop
    \/ Render
    \/ \E r \in Runs : MicGranted(r)
    \/ \E r \in Runs : MicDenied(r)
    \/ \E r \in Runs : SessionOpened(r)
    \/ \E r \in Runs : ConnectFailed(r)
    \/ \E r \in Runs, text \in texts : OnMessagePartial(r, text)
    \/ \E r \in Runs, text \in texts : OnMessageFinal(r, text)
    \/ \E t \in 1..MaxFrags : SilenceTimeout(t)
    \/ \E r \in Runs : OnError(r)
    \/ \E r \in Runs : OnClose(r)

Spec == Init /\ [][Next]_vars

ScenarioSpec == ScenarioInit /\ [][Next]_vars

\* A scheduled silence timer fires once its delay has passed, and the close
\* event of a failed connection follows its error event in the same task.
Fairness ==
    /\ WF_vars(\E t \in 1..MaxFrags : SilenceTimeout(t))
    /\ WF_vars(\E r \in Runs : session[r] = "errored" /\ OnClose(r))

LiveSpec == Init /\ [][Next]_vars /\ Fairness

\* ---------------------------------------------------------------- App.tsx
\* The earlier variant of the component.  It keeps one displayed text
\* (transcription) and the text of the current turn (currentTranscriptionRef),
\* and its stopListening reads isListening from its closure.  The state and
\* the refs it shares by name with part_000 are modelled by the same
\* variables.  The API key has been entered (the button is disabled without).

\* s.slice(start, end): a negative index counts from the end; -0 is 0.
Slice(s, start, end) ==
    LET from == IF start < 0
                THEN (IF Len(s) + start < 0 THEN 0 ELSE Len(s) + start)
                ELSE (IF start > Len(s) THEN Len(s) ELSE start)
        to == IF end < 0
              THEN (IF Len(s) + end < 0 THEN 0 ELSE Len(s) + end)
              ELSE (IF end > Len(s) THEN Len(s) ELSE end)
    IN  SubSeq(s, from + 1, to)

\* onmessage, inputTranscription: prev + text
AppendText(prev, text) == prev \o text

\* onmessage, turnComplete:
\*   base = prev.slice(0, -fullTurn.length); (base + fullTurn).trim() + ' '
TurnComplete(prev, fullTurn) ==
    Trim(Slice(prev, 0, 0 - Len(fullTurn)) \o fullTurn) \o <<" ">>

\* stopListening: (prev + currentTranscriptionRef.current).trim() + '\n\n'
StopFlush(prev, current) == Trim(prev \o current) \o <<"\n", "\n">>

\* The end of stopListening: the updater is queued and the ref is cleared
\* right after, so the updater reads the ref before or after it is cleared,
\* as React runs it eagerly or at the next render.
AppFlush ==
    IF currentTranscriptionRef # <<>>
    THEN /\ \E seen \in {currentTranscriptionRef, <<>>} :
               transcription' = StopFlush(transcription, seen)
         /\ currentTranscriptionRef' = <<>>
    ELSE UNCHANGED <<transcription, currentTranscriptionRef>>

\* The body of App.tsx's stopListening, called through a closure that holds
\* isListening = closure, up to its await of audioContext.close().
AppStopListening(closure, ses) ==
    IF ~closure
    THEN /\ session' = ses
         /\ UNCHANGED <<isListening, transcription, currentTranscriptionRef,
                        resources, trace, before>>
    ELSE /\ isListening' = FALSE
         /\ session' = IF sessionRef # 0 /\ ses[sessionRef] = "open"
                       THEN [ses EXCEPT ![sessionRef] = "closing"]
                       ELSE ses
         /\ sessionRef' = 0
         /\ stream' = IF mediaStreamRef # 0
                      THEN [stream EXCEPT ![mediaStreamRef] = "stopped"]
                      ELSE stream
         /\ mediaStreamRef' = 0
         /\ scriptProcessorRef' = 0
         /\ trace' = <<Stop>>
         /\ before' = Buffers(transcription, currentTranscriptionRef)
         /\ IF audioContextRef # 0
            THEN /\ audio' = [audio EXCEPT ![audioContextRef] = "closing"]
                 /\ UNCHANGED <<audioContextRef, transcription,
                                currentTranscriptionRef>>
            ELSE /\ audio' = IF scriptProcessorRef # 0
                             THEN [audio EXCEPT ![scriptProcessorRef] = "off"]
                             ELSE audio
                 /\ UNCHANGED audioContextRef
                 /\ AppFlush

\* stopListening resumes after await audioContextRef.current.close()
AppStopResumed(r) ==
    /\ ~Dispatching
    /\ audio[r] = "closing"
    /\ audio' = [audio EXCEPT ![r] = "off"]
    /\ audioContextRef' = 0
    /\ AppFlush
    /\ UNCHANGED <<audioTs, capturedIsListening, texts, listening, assembler,
                   error, timers, sessionRef, mediaStreamRef,
                   scriptProcessorRef, stream, pc, session, runs, fragCount,
                   trace, before, lastFired>>

\* handleToggleListening with isListening false: startListening up to its
\* first await.  The callbacks of this run capture the stopListening of the
\* render that made this startListening.
AppClickStart ==
    /\ ~Dispatching
    /\ ~renderedIsListening
    /\ runs < MaxRuns
    /\ runs' = runs + 1
    /\ isListening' = TRUE
    /\ renderedIsListening' = TRUE
    /\ error' = "null"
    /\ transcription' = <<>>
    /\ currentTranscriptionRef' = <<>>
    /\ capturedIsListening' =
          [capturedIsListening EXCEPT ![runs + 1] = renderedIsListening]
    /\ pc' = [pc EXCEPT ![runs + 1] = "getUserMedia"]
    /\ trace' = <<>>
    /\ before' = Buffers(<<>>, <<>>)
    /\ UNCHANGED <<audioTs, texts, isListeningRef, assembler, timers,
                   resources, session, fragCount, lastFired>>

\* handleToggleListening with isListening true: the stopListening of the
\* current render.
AppClickStop ==
    /\ ~Dispatching
    /\ renderedIsListening
    /\ AppStopListening(renderedIsListening, session)
    /\ renderedIsListening' = isListening'
    /\ UNCHANGED <<audioTs, capturedIsListening, texts, isListeningRef,
                   assembler, error, timers, pc, runs, fragCount, lastFired>>

AppRender ==
    /\ ~Dispatching
    /\ renderedIsListening # isListening
    /\ renderedIsListening' = isListening
    /\ UNCHANGED <<appTsx, audioTs, texts, isListening, isListeningRef,
                   assembler, error, timers, resources, pc, session, runs,
                   fragCount, trace, before, lastFired>>

AppMicGranted(r) ==
    /\ ~Dispatching
    /\ pc[r] = "getUserMedia"
    /\ stream' = [stream EXCEPT ![r] = "live"]
    /\ mediaStreamRef' = r
    /\ pc' = [pc EXCEPT ![r] = "connect"]
    /\ UNCHANGED <<appTsx, audioTs, texts, listening, assembler, error, timers,
                   sessionRef, scriptProcessorRef, audioContextRef, audio,
                   session, runs, fragCount, trace, before, lastFired>>

\* getUserMedia or ai.live.connect rejects: the catch block.
AppStartFailed(r) ==
    /\ ~Dispatching
    /\ pc[r] \in {"getUserMedia", "connect"}
    /\ error' = "microphone"
    /\ isListening' = FALSE
    /\ pc' = [pc EXCEPT ![r] = "failed"]
    /\ UNCHANGED <<appTsx, audioTs, texts, renderedIsListening, isListeningRef,
                   assembler, timers, resources, session, runs, fragCount,
                   trace, before, lastFired>>

AppSessionOpened(r) ==
    /\ ~Dispatching
    /\ pc[r] = "connect"
    /\ session' = [session EXCEPT ![r] = "open"]
    /\ IF mediaStreamRef = 0
       THEN UNCHANGED <<scriptProcessorRef, audioContextRef, audio>>
       ELSE /\ audioContextRef' = r
            /\ scriptProcessorRef' = r
            /\ audio' = [audio EXCEPT ![r] = "on"]
    /\ sessionRef' = r
    /\ pc' = [pc EXCEPT ![r] = "done"]
    /\ UNCHANGED <<appTsx, audioTs, texts, listening, assembler, error, timers,
                   mediaStreamRef, stream, runs, fragCount, trace, before,
                   lastFired>>

TurnCompleted == [kind |-> "turnComplete", text |-> <<>>]

\* onmessage: an inputTranscription with the given text (if hasText), then
\* turnComplete (if given).  before holds the two texts as they were when
\* the last part of the message was processed.
AppOnMessage(r, hasText, text, turnComplete) ==
    /\ ~Dispatching
    /\ session[r] = "open"
    /\ hasText \/ turnComplete
    /\ fragCount < MaxFrags
    /\ fragCount' = fragCount + 1
    /\ LET current == IF hasText
                      THEN currentTranscriptionRef \o text
                      ELSE currentTranscriptionRef
           shown == IF hasText
                    THEN AppendText(transcription, text)
                    ELSE transcription
       IN  IF turnComplete
           THEN /\ currentTranscriptionRef' = <<>>
                /\ transcription' = TurnComplete(shown, current)
                /\ trace' = <<TurnCompleted>>
                /\ before' = Buffers(shown, current)
           ELSE /\ currentTranscriptionRef' = current
                /\ transcription' = shown
                /\ trace' = <<Partial(text)>>
                /\ before' = Buffers(transcription, currentTranscriptionRef)
    /\ UNCHANGED <<audioTs, capturedIsListening, texts, listening, assembler,
                   error, timers, resources, pc, session, runs, lastFired>>

\* onerror: setError, then the stopListening captured at start.
AppOnError(r) ==
    /\ ~Dispatching
    /\ session[r] = "open"
    /\ error' = "session"
    /\ AppStopListening(capturedIsListening[r],
                        [session EXCEPT ![r] = "errored"])
    /\ UNCHANGED <<audioTs, capturedIsListening, texts, renderedIsListening,
                   isListeningRef, assembler, timers, pc, runs, fragCount,
                   lastFired>>

\* onclose: the stopListening captured at start.
AppOnClose(r) ==
    /\ \/ ~Dispatching /\ session[r] \in {"open", "closing"}
       \/ session[r] = "errored"
    /\ AppStopListening(capturedIsListening[r],
                        [session EXCEPT ![r] = "closed"])
    /\ UNCHANGED <<audioTs, capturedIsListening, texts, renderedIsListening,
                   isListeningRef, assembler, error, timers, pc, runs,
                   fragCount, lastFired>>

AppNext ==
    \/ AppClickStart
    \/ AppClickStop
    \/ AppRender
    \/ \E r \in Runs : AppMicGranted(r)
    \/ \E r \in Runs : AppStartFailed(r)
    \/ \E r \in Runs : AppSessionOpened(r)
    \/ \E r \in Runs, text \in texts, turnComplete \in BOOLEAN :
          AppOnMessage(r, TRUE, text, turnComplete)
    \/ \E r \in Runs : AppOnMessage(r, FALSE, <<>>, TRUE)
    \/ \E r \in Runs : AppOnError(r)
    \/ \E r \in Runs : AppOnClose(r)
    \/ \E r \in Runs : AppStopResumed(r)

AppSpec == Init /\ [][AppNext]_vars

\* ---------------------------------------------------------------- utils/audio.ts
\* A Float32 sample is the number k / SampleUnit for an integer k; such a
\* number and its product with 32768 are exact in binary floating point.
SampleUnit == 131072

\* The samples of a frame: -1.0, -0.5, 0.5, 1.0, the largest sample below
\* 1.0, and small samples whose products have a fractional part.
SampleValues == {-131072, -65536, -7, -1, 0, 1, 7, 65536, 131071, 131072}

Frames == UNION { [1..n -> SampleValues] : n \in 0..MaxSamples }

\* The integral part of n / d, rounded toward zero (ToIntegerOrInfinity).
Truncate(n, d) == IF n >= 0 THEN n \div d ELSE -((-n) \div d)

\* Storing a number into an Int16Array element (ToInt16): the integral part
\* modulo 2^16, read as a two's complement 16-bit integer.
ToInt16(n, d) ==
    LET int16bit == Truncate(n, d) % 65536
    IN  IF int16bit >= 32768 THEN int16bit - 65536 ELSE int16bit

\* The product of the sample k / SampleUnit with 32768 is k / ProductUnit.
ProductUnit == SampleUnit \div 32768

\* int16[i] = data[i] * 32768
Int16Array(samples) ==
    [i \in 1..Len(samples) |-> ToInt16(samples[i], ProductUnit)]

Uint8Array_BigEndian(int16) ==
    [j \in 1..(2 * Len(int16)) |->
        LET bits == int16[(j + 1) \div 2] % 65536
        IN  IF j % 2 = 1 THEN bits \div 256 ELSE bits % 256]

\* new Uint8Array(int16.buffer): the bytes of the elements in the byte order
\* of the platform, which is little-endian on the platforms browsers run on.
Uint8Array(int16) ==
    [j \in 1..(2 * Len(int16)) |->
        LET bits == int16[(j + 1) \div 2] % 65536
        IN  IF j % 2 = 1 THEN bits % 256 ELSE bits \div 256]

Base64Chars ==
    << "A", "B", "C", "D", "E", "F", "G", "H", "I", "J", "K", "L", "M",
       "N", "O", "P", "Q", "R", "S", "T", "U", "V", "W", "X", "Y", "Z",
       "a", "b", "c", "d", "e", "f", "g", "h", "i", "j", "k", "l", "m",
       "n", "o", "p", "q", "r", "s", "t", "u", "v", "w", "x", "y", "z",
       "0", "1", "2", "3", "4", "5", "6", "7", "8", "9", "+", "/" >>

\* btoa of the binary string whose character codes are the bytes
RECURSIVE btoa(_)
btoa(bytes) ==
    IF bytes = <<>> THEN <<>>
    ELSE LET n == Len(bytes)
             b2 == IF n >= 2 THEN bytes[2] ELSE 0
             b3 == IF n >= 3 THEN bytes[3] ELSE 0
             bits == bytes[1] * 65536 + b2 * 256 + b3
         IN  << Base64Chars[(bits \div 262144) + 1],
                Base64Chars[((bits \div 4096) % 64) + 1],
                IF n >= 2 THEN Base64Chars[((bits \div 64) % 64) + 1] ELSE "=",
                IF n >= 3 THEN Base64Chars[(bits % 64) + 1] ELSE "=" >>
               \o (IF n > 3 THEN btoa(SubSeq(bytes, 4, n)) ELSE <<>>)

\* encode(bytes): String.fromCharCode of every byte, then btoa
encode(bytes) == btoa(bytes)

createBlob(samples) ==
    [data |-> encode(Uint8Array(Int16Array(samples))),
     mimeType |-> "audio/pcm;rate=16000"]

\* processor.onaudioprocess: the payload of one frame of the microphone
OnAudioProcess(frame) ==
    /\ data' = frame
    /\ blob' = createBlob(frame)
    /\ UNCHANGED <<appTsx, texts, listening, assembler, error, timers,
                   resources, pc, session, runs, fragCount, trace, before,
                   lastFired>>

AudioInit == InitWith({{}})

AudioNext == \E frame \in Frames : OnAudioProcess(frame)

AudioSpec == AudioInit /\ [][AudioNext]_vars

\* ---------------------------------------------------------------- properties
NonWs(s) == SelectSeq(s, LAMBDA c : ~IsWs(c))

Blank(s) == \A i \in DOMAIN s : IsWs(s[i])

\* The concatenation of the texts of the fragments in tr, in arrival order.
RECURSIVE Received(_)
Received(tr) ==
    IF tr = <<>> THEN <<>>
    ELSE IF Head(tr).kind \in {"partial", "final"}
         THEN Head(tr).text \o Received(Tail(tr))
         ELSE Received(Tail(tr))

LastEvent == trace[Len(trace)]

LastIs(kind) == trace # <<>> /\ LastEvent.kind = kind

\* C1: the non-whitespace characters displayed (finalized followed by
\* inProgress) are exactly those received since the session start, once each
\* and in arrival order; after a stop they are all in finalized.
C1_NoTextLostOrDuplicated ==
    /\ NonWs(finalizedTranscription \o inProgressTranscription)
          = NonWs(Received(trace))
    /\ LastIs("stop") =>
          /\ inProgressTranscription = <<>>
          /\ NonWs(finalizedTranscription) = NonWs(Received(trace))

\* A session that committed by timeout and by a final fragment, then stopped.
C1_Witness ==
    /\ LastIs("stop")
    /\ \E i, j \in DOMAIN trace :
          /\ i < j
          /\ trace[i].kind = "timeout"
          /\ trace[j].kind = "final"
    /\ Len(NonWs(finalizedTranscription)) >= 2

\* C2 as stated: after a final fragment with text t, inProgress is empty and
\* finalized is the previous finalized, then trim(previous inProgress + t),
\* then one space.
C2_Original ==
    LastIs("final") =>
        /\ inProgressTranscription = <<>>
        /\ finalizedTranscription =
              before.finalized
                \o Trim(before.inProgress \o LastEvent.text) \o <<" ">>

\* C2 amended: after a final fragment with text t, inProgress is empty and
\* finalized is trim(previous finalized + previous inProgress + t) followed
\* by one space; no non-whitespace character is dropped or duplicated.
C2_FinalCommit ==
    LastIs("final") =>
        /\ inProgressTranscription = <<>>
        /\ finalizedTranscription =
              Trim(before.finalized \o before.inProgress \o LastEvent.text)
                \o <<" ">>
        /\ NonWs(finalizedTranscription) =
              NonWs(before.finalized) \o NonWs(before.inProgress)
                \o NonWs(LastEvent.text)

\* A final fragment with text folded onto a non-empty inProgress.
C2_Witness ==
    /\ LastIs("final")
    /\ before.inProgress # <<>>
    /\ NonWs(LastEvent.text) # <<>>

\* C3 as stated: ("Bonjour", false) then ("le monde", true) after a reset
\* gives finalized "Bonjour le monde ", inProgress "", no timer pending.
C3_Original ==
    trace = <<Partial(Bonjour), Final(le_monde)>> =>
        /\ finalizedTranscription = Bonjour \o <<" ">> \o le_monde \o <<" ">>
        /\ inProgressTranscription = <<>>
        /\ pendingTimers = {}

\* C3 amended: the scenario gives finalized "Bonjourle monde " (the texts are
\* joined as they arrive), inProgress "", no timer pending.
C3_BonjourScenario ==
    trace = <<Partial(Bonjour), Final(le_monde)>> =>
        /\ finalizedTranscription = Bonjour \o le_monde \o <<" ">>
        /\ inProgressTranscription = <<>>
        /\ pendingTimers = {}

C3_Witness == trace = <<Partial(Bonjour), Final(le_monde)>>

\* C4: a silence timer fires only if no fragment was processed since the
\* partial fragment that scheduled it; a pending timer is always the one the
\* latest fragment scheduled.
C4_NoStaleTimerFires ==
    /\ lastFired = 0
    /\ \A t \in pendingTimers : t = fragCount

\* A timer fired although an earlier timer had been superseded.
C4_Witness ==
    /\ LastIs("timeout")
    /\ fragCount >= 2
    /\ silenceTimerRef = fragCount

\* C5: at most one silence timer is live, it is the one silenceTimerRef
\* holds, and only a partial fragment leaves one scheduled.
C5_OneLiveTimer ==
    /\ Cardinality(pendingTimers) <= 1
    /\ pendingTimers \subseteq {silenceTimerRef}
    /\ LastIs("partial") => pendingTimers = {fragCount}
    /\ LastIs("final") => pendingTimers = {}

\* A second partial fragment superseded the timer of the first.
C5_Witness ==
    /\ Len(trace) = 2
    /\ trace[1].kind = "partial"
    /\ trace[2].kind = "partial"
    /\ pendingTimers = {fragCount}

\* C6 as stated: right after a stopListening that ran and right after the
\* reset at a session start no silence timer is pending, and after the reset
\* both buffers are empty; so a timer scheduled before a stop or a reset
\* never fires after it.
C6_TimersCancelledOnStopAndReset ==
    [][ /\ ClickStart =>
             /\ pendingTimers' = {}
             /\ finalizedTranscription' = <<>>
             /\ inProgressTranscription' = <<>>
        /\ ( \/ ClickStop
             \/ \E r \in Runs : OnError(r) /\ isListeningRef
             \/ \E r \in Runs : OnClose(r) /\ isListeningRef )
           => pendingTimers' = {} ]_vars

\* C7: stopListening moves a non-blank inProgress into finalized once and
\* empties inProgress; a second stopListening right after the first changes
\* neither buffer.
C7_StopFlushesOnce ==
    /\ LastIs("stop") =>
          /\ inProgressTranscription = <<>>
          /\ finalizedTranscription =
                IF Blank(before.inProgress)
                THEN before.finalized
                ELSE CollapseWs(before.finalized
                                  \o Trim(before.inProgress) \o <<" ">>)
          /\ NonWs(finalizedTranscription) =
                NonWs(before.finalized) \o NonWs(before.inProgress)
    /\ (Len(trace) >= 2 /\ LastIs("stop") /\ trace[Len(trace) - 1].kind = "stop")
          => /\ finalizedTranscription = before.finalized
             /\ inProgressTranscription = before.inProgress

\* Two stops in succession, the first of which flushed non-blank text.
C7_Witness ==
    /\ Len(trace) >= 3
    /\ LastIs("stop")
    /\ trace[Len(trace) - 1].kind = "stop"
    /\ trace[Len(trace) - 2].kind = "partial"
    /\ NonWs(trace[Len(trace) - 2].text) # <<>>
    /\ NonWs(finalizedTranscription) # <<>>

NoWsRun(s) == \A i \in 1..(Len(s) - 1) : ~(IsWs(s[i]) /\ IsWs(s[i + 1]))

\* C8: a silence timeout on a non-blank inProgress P and finalized F leaves
\* inProgress empty and finalized = collapse(F + trim(P) + " "), which holds
\* no run of two whitespace characters; ("Hello ", false), ("world", false),
\* timeout gives finalized "Hello world ".
C8_TimeoutCommit ==
    /\ (LastIs("timeout") /\ ~Blank(before.inProgress)) =>
          /\ inProgressTranscription = <<>>
          /\ finalizedTranscription =
                CollapseWs(before.finalized
                             \o Trim(before.inProgress) \o <<" ">>)
          /\ NoWsRun(finalizedTranscription)
    /\ trace = <<Partial(Hello_), Partial(world), Timeout>> =>
          /\ finalizedTranscription = Hello_ \o world \o <<" ">>
          /\ inProgressTranscription = <<>>

C8_Witness == trace = <<Partial(Hello_), Partial(world), Timeout>>

\* C9 as stated: a silence timeout on a blank inProgress leaves finalized and
\* inProgress exactly unchanged.
C9_Original ==
    (LastIs("timeout") /\ Blank(before.inProgress)) =>
        /\ finalizedTranscription = before.finalized
        /\ inProgressTranscription = before.inProgress

\* C9 amended: a silence timeout on a blank inProgress leaves finalized
\* unchanged and inProgress empty (whitespace-only text is discarded); a
\* timeout right after a timeout changes nothing.
C9_BlankTimeout ==
    /\ (LastIs("timeout") /\ Blank(before.inProgress)) =>
          /\ finalizedTranscription = before.finalized
          /\ inProgressTranscription = <<>>
    /\ (Len(trace) >= 2 /\ LastIs("timeout")
           /\ trace[Len(trace) - 1].kind = "timeout")
          => /\ finalizedTranscription = before.finalized
             /\ inProgressTranscription = before.inProgress

\* A timeout on a whitespace-only inProgress with text already committed.
C9_Witness ==
    /\ LastIs("timeout")
    /\ before.inProgress = <<" ">>
    /\ before.finalized # <<>>

\* C10: while only partial fragments were processed since the reset,
\* inProgress is the concatenation of their texts in arrival order, untrimmed,
\* and finalized is still empty.
C10_PartialsConcatenate ==
    (\A i \in DOMAIN trace : trace[i].kind = "partial") =>
        /\ inProgressTranscription = Received(trace)
        /\ finalizedTranscription = <<>>

\* Two partial fragments with different non-empty texts.
C10_Witness ==
    /\ Len(trace) = 2
    /\ \A i \in DOMAIN trace : trace[i].kind = "partial"
    /\ trace[1].text # trace[2].text
    /\ trace[1].text # <<>>
    /\ trace[2].text # <<>>

IsFragment(e) == e.kind \in {"partial", "final"}

\* C11 as stated: a fragment whose text is "" adds no characters: a partial
\* one leaves both buffers as they were, and after a partial or a final one
\* the displayed transcript (finalized followed by inProgress) has not grown;
\* in particular a final fragment on two empty buffers leaves them empty.
C11_EmptyFragmentIsNoOp ==
    (trace # <<>> /\ IsFragment(LastEvent) /\ LastEvent.text = <<>>) =>
        /\ Len(finalizedTranscription \o inProgressTranscription)
              <= Len(before.finalized \o before.inProgress)
        /\ LastEvent.kind = "partial" =>
              /\ finalizedTranscription = before.finalized
              /\ inProgressTranscription = before.inProgress

\* Whitespace normalisation: runs collapsed, ends trimmed.
Normalised(s) == Trim(CollapseWs(s))

IsPrefix(s, t) == Len(s) <= Len(t) /\ SubSeq(t, 1, Len(s)) = s

\* C12: between one session start and the next, after every assembler event
\* (fragment, timeout, stop) the previous finalized, whitespace normalised, is
\* a prefix of the new finalized, whitespace normalised.
C12_FinalizedAppendOnly ==
    trace # <<>> =>
        IsPrefix(Normalised(before.finalized), Normalised(finalizedTranscription))

\* A stop or a timeout committed text onto a finalized that held a whitespace
\* run: the new finalized extends the old one only up to normalisation.
C12_Witness ==
    /\ trace # <<>>
    /\ LastEvent.kind \in {"timeout", "stop"}
    /\ ~Blank(before.inProgress)
    /\ before.finalized # <<>>
    /\ ~IsPrefix(before.finalized, finalizedTranscription)
    /\ Len(finalizedTranscription) > Len(before.finalized)

\* ---------------------------------------------------------------- payload
Base64Index(c) == (CHOOSE i \in 1..64 : Base64Chars[i] = c) - 1

\* The bytes a base64 text decodes to (atob).
RECURSIVE atob(_)
atob(chars) ==
    IF Len(chars) < 4 THEN <<>>
    ELSE LET pad == IF chars[3] = "=" THEN 2 ELSE IF chars[4] = "=" THEN 1 ELSE 0
             c3 == IF pad >= 2 THEN 0 ELSE Base64Index(chars[3])
             c4 == IF pad >= 1 THEN 0 ELSE Base64Index(chars[4])
             bits == Base64Index(chars[1]) * 262144
                       + Base64Index(chars[2]) * 4096 + c3 * 64 + c4
             bytes == << bits \div 65536, (bits \div 256) % 256, bits % 256 >>
         IN  SubSeq(bytes, 1, 3 - pad) \o atob(SubSeq(chars, 5, Len(chars)))

\* The 16-bit signed integer whose low byte is lo and high byte is hi.
Signed16(lo, hi) ==
    IF hi >= 128 THEN hi * 256 + lo - 65536 ELSE hi * 256 + lo

\* round(s * 32768) for the sample s = k / SampleUnit
Round(k) == (k + ProductUnit \div 2) \div ProductUnit

Clamp(n) == IF n > 32767 THEN 32767 ELSE IF n < -32768 THEN -32768 ELSE n

Produced == blob # NoBlob

\* C14 as stated: every sample s in [-1, 1] of the frame is sent as the
\* 16-bit integer round(s * 32768) clamped to [-32768, 32767]; 0.5 is sent as
\* 16384 and -0.5 as -16384.
C14_RoundedAndClamped ==
    Produced =>
        LET bytes == atob(blob.data)
        IN  /\ Len(bytes) = 2 * Len(data)
            /\ \A i \in 1..Len(data) :
                  Signed16(bytes[2 * i - 1], bytes[2 * i]) = Clamp(Round(data[i]))

\* C15: the payload of a frame of n samples decodes to 2n bytes, bytes 2i
\* and 2i+1 (counted from 0) being the low and the high byte of sample i as
\* stored in the Int16Array, in sample order; the mimeType is
\* "audio/pcm;rate=16000"; the text is base64 (a multiple of four characters).
C15_LittleEndianPayload ==
    Produced =>
        LET bytes == atob(blob.data)
            int16 == Int16Array(data)
        IN  /\ blob.mimeType = "audio/pcm;rate=16000"
            /\ Len(blob.data) % 4 = 0
            /\ Len(bytes) = 2 * Len(data)
            /\ \A i \in 1..Len(data) :
                  /\ bytes[2 * i - 1] = int16[i] % 256
                  /\ bytes[2 * i] = (int16[i] % 65536) \div 256
                  /\ Signed16(bytes[2 * i - 1], bytes[2 * i]) = int16[i]

\* The frame [0.5, -0.5]: the bytes 00 40 00 C0, the text "AEAAwA==".
C15_Witness ==
    /\ data = <<65536, -65536>>
    /\ atob(blob.data) = <<0, 64, 0, 192>>
    /\ blob.data = <<"A", "E", "A", "A", "w", "A", "=", "=">>

\* ---------------------------------------------------------------- listening turn
\* C13 as stated: a microphone denial, a failure to open the session and a
\* mid-session error each end the listening turn: right after the handler
\* isListening is false and an error message is set (the one error state
\* holds a single message); a session is requested only by the run a click
\* started.  Stated of both variants of the component.
C13_ErrorsEndTheTurn ==
    [][ ( \/ \E r \in Runs : MicDenied(r) \/ ConnectFailed(r) \/ OnError(r)
          \/ \E r \in Runs : AppStartFailed(r) \/ AppOnError(r) )
        => /\ ~isListening'
           /\ error' # "null"
           /\ \A r \in Runs : pc'[r] # "idle" => r <= runs' ]_vars

\* C17 as stated: when onclose or onerror is delivered while a listening turn
\* is active (isListening is true), the stop takes effect in the handler:
\* isListening becomes false and no text is left pending (part_000:
\* inProgress is empty and its text is in finalized; App.tsx: the turn is
\* over for the session the callback belongs to).
C17_CallbackStopTakesEffect ==
    [][ /\ ( /\ isListening
             /\ \E r \in Runs : OnError(r) \/ OnClose(r) )
           => /\ ~isListening'
              /\ inProgressTranscription' = <<>>
              /\ NonWs(finalizedTranscription')
                    = NonWs(finalizedTranscription \o inProgressTranscription)
        /\ ( /\ isListening
             /\ \E r \in Runs : AppOnError(r) \/ AppOnClose(r) )
           => ~isListening' ]_vars

\* C19 as stated: App.tsx, after a turnComplete on the displayed
\* transcription T (whatever the text C of the current turn, "" included)
\* the transcription is trim(T) followed by one space.
C19_TurnCompleteKeepsText ==
    (trace # <<>> /\ LastEvent = TurnCompleted) =>
        transcription = Trim(before.finalized) \o <<" ">>

\* ---------------------------------------------------------------- silence heuristic
\* C16: the service delivers finitely many fragments; if the scheduled timer
\* eventually fires, a non-blank inProgress does not stay: eventually
\* inProgress is empty and every non-whitespace character received since the
\* session start is in finalized.
C16_SilenceCommits ==
    (~Blank(inProgressTranscription))
        ~> ( /\ inProgressTranscription = <<>>
             /\ trace # <<>> =>
                   NonWs(finalizedTranscription) = NonWs(Received(trace)) )

\* The timer of a partial fragment fired and committed its text.
C16_Witness ==
    /\ LastIs("timeout")
    /\ ~Blank(before.inProgress)
    /\ inProgressTranscription = <<>>
    /\ NonWs(finalizedTranscription) = NonWs(Received(trace))
    /\ pendingTimers = {}

\* C18 as stated: whenever isListening is false and no startListening is
\* awaiting the microphone or the connection, no microphone stream is live,
\* no session is open and no audio graph is feeding frames; and no fragment
\* is folded while isListening is false.  Stated of the behaviours in which
\* every startListening ran to its end (no start failed).
C18_NothingRunsWhenIdle ==
    /\ ( /\ ~isListening
         /\ \A r \in Runs : pc[r] \in {"idle", "done"} )
       => \A r \in Runs :
             /\ stream[r] # "live"
             /\ session[r] # "open"
             /\ audio[r] # "on"
    /\ (trace # <<>> /\ IsFragment(LastEvent)) => isListening

\* C20: if inProgress is non-empty, the last assembler event was a partial
\* fragment and the timer it scheduled is pending.
C20_PendingTextHasTimer ==
    inProgressTranscription # <<>> =>
        /\ LastIs("partial")
        /\ pendingTimers = {fragCount}
        /\ silenceTimerRef = fragCount

\* Text is pending after a partial fragment that followed a commit.
C20_Witness ==
    /\ inProgressTranscription # <<>>
    /\ finalizedTranscription # <<>>
    /\ pendingTimers # {}
    /\ isListening

\* C21 as stated: when ai.live.connect rejects after the microphone stream
\* was acquired, the catch block leaves nothing acquired: right after it
\* mediaStreamRef holds no stream, the stream of the run is not live (its
\* tracks are stopped) and sessionRef is null, as after a stopListening.
C21_FailedStartReleasesStream ==
    [][ \A r \in Runs :
          (ConnectFailed(r) /\ stream[r] = "live")
             => /\ stream'[r] # "live"
                /\ mediaStreamRef' = 0
                /\ sessionRef' = 0 ]_vars

====
